---- MODULE Spec2Model ----
(***************************************************************************)
(* Model of the ParmeSan dynamic control-flow graph                        *)
(* (fuzzer/src/dyncfg/cfg.rs, struct ControlFlowGraph): the weighted       *)
(* directed graph whose edge weights cache the destination's distance      *)
(* score, the target sets, the indirect-edge and magic-byte side tables,   *)
(* and the operations add_edge, remove_target, set_edge_indirect and       *)
(* set_magic_bytes together with the queries computed from that state.     *)
(*                                                                         *)
(* Every public operation runs to completion before the next one starts    *)
(* (single-threaded, &mut self), so each operation is one action.          *)
(*                                                                         *)
(* The trace recorder of the runtime (runtime/src/logger.rs, struct        *)
(* Logger) is modelled next to it, with its own specification.             *)
(***************************************************************************)
EXTENDS Integers, Sequences, FiniteSets, TLC

\* ---------------------------------------------------------------- bounds
\* Node identifiers (BbId / CmpId, both u32) are 0..MaxNode.
MaxNode == 3
\* The operations of Spec are applied to the nodes 0..MaxCore; SpecGraph,
\* which has add_edge and remove_target only, applies them to every node.
MaxCore == 2
\* At most MaxEdges distinct edges are ever inserted.
MaxEdges == 2
\* Inputs (Vec<u8>) have at most MaxInpLen bytes.
MaxInpLen == 1
\* set_magic_bytes is handed at most MaxTags tainted ranges.
MaxTags == 1
\* Score is u32 in the source; the model keeps a ScoreBits-bit unsigned
\* integer, so that UNDEF_SCORE is still the largest value of the type.
ScoreBits == 8

\* aggregate_score is applied to lists of at most MaxVals weights.
MaxVals == 3

\* The trace recorder's save is called while its condition list holds fewer
\* than MaxConds entries,
MaxConds == 2
\* save_ind and untainted_save while their lists hold fewer than MaxLogged;
MaxLogged == 1
\* a condition is saved when its order is at most MaxCondOrder, which
\* stands for config::MAX_COND_ORDER.
MaxCondOrder == 1

Nodes == 0..MaxNode
Edges == Nodes \X Nodes
\* The two byte values inputs are made of (0x41, 0x42).
Bytes == {65, 66}
Inputs == UNION {[1..n -> Bytes] : n \in 0..MaxInpLen}
\* TagSeg{begin, end}: the half-open range begin..end of input offsets.  end
\* may lie one past the longest input.
TagSegs == {s \in (0..MaxInpLen) \X (0..(MaxInpLen + 1)) : s[1] <= s[2]}
\* The sets of tainted ranges (Vec<TagSeg>) handed to set_magic_bytes.
TagVecs == {o \in SUBSET TagSegs : Cardinality(o) <= MaxTags}
\* The edge the indirect-edge and magic-byte events are reported for.
GateEdges == {<<0, 1>>}
CoreNodes == 0..MaxCore
CoreEdges == CoreNodes \X CoreNodes
\* The target sets a loaded bundle may carry: node ids are opaque to the
\* program, so the k largest ids stand for any k targets.
TargetSets(top) == {t..top : t \in 0..(top + 1)}
\* The call sites indirect edges are reported for.
CallSites == {7}

\* ------------------------------------------------------------- constants
TARGET_SCORE == 0
UNDEF_SCORE == 2 ^ ScoreBits - 1

\* The weights aggregate_score is applied to on its own: the target score,
\* the small distances and the sentinel.
ScoreValues == {TARGET_SCORE, 1, 2, 3, UNDEF_SCORE}
ScoreLists == UNION {[1..n -> ScoreValues] : n \in 0..MaxVals}

Incoming == "Incoming"
Outgoing == "Outgoing"

VARIABLES
    graph,            \* DiGraphMap<BbId, Score>: [nodes, edges]
    targets,          \* HashSet<CmpId>: active targets
    id_mapping,       \* HashMap<BbId, CmpId>
    solved_targets,   \* HashSet<CmpId>
    indirect_edges,   \* HashSet<Edge>
    callsite_edges,   \* HashMap<CallSiteId, HashSet<Edge>>
    magic_bytes,      \* HashMap<Edge, FixedBytes>
    aborted,          \* TRUE once an operation has panicked
    last,             \* the last call made: its name and what it returned
    logger            \* the trace recorder (runtime/src/logger.rs, Logger)

vars == <<graph, targets, id_mapping, solved_targets, indirect_edges,
          callsite_edges, magic_bytes, aborted, last, logger>>

\* ------------------------------------------------------ sequence helpers
Range(s) == {s[i] : i \in 1..Len(s)}

RECURSIVE SeqSum(_)
SeqSum(s) == IF s = <<>> THEN 0 ELSE Head(s) + SeqSum(Tail(s))

RECURSIVE SeqProd(_)
SeqProd(s) == IF s = <<>> THEN 1 ELSE Head(s) * SeqProd(Tail(s))

\* ------------------------------------------------------------ graph store
\* DiGraphMap::new(): no nodes, no edges.  nodes[n] is n's adjacency list, a
\* list of (neighbour, direction) in insertion order; edges maps an edge to
\* its weight.  A node that was never an endpoint has the empty list.
EmptyGraph == [nodes |-> [n \in Nodes |-> <<>>], edges |-> <<>>]

\* GraphMap::contains_edge
contains_edge(g, a, b) == <<a, b>> \in DOMAIN g.edges

\* GraphMap::edge_weight (called only for edges that exist)
edge_weight(g, a, b) == g.edges[<<a, b>>]

\* GraphMap::add_edge(a, b, weight): an existing edge only has its weight
\* replaced; a new edge is appended to a's list as (b, Outgoing) and, unless
\* it is a self-loop, to b's list as (a, Incoming).
graph_add_edge(g, a, b, weight) ==
    LET newEdges == [e \in (DOMAIN g.edges) \cup {<<a, b>>} |->
                        IF e = <<a, b>> THEN weight ELSE g.edges[e]]
    IN  IF contains_edge(g, a, b)
        THEN [nodes |-> g.nodes, edges |-> newEdges]
        ELSE [nodes |-> [n \in Nodes |->
                            IF n = a THEN Append(g.nodes[n], <<b, Outgoing>>)
                            ELSE IF n = b THEN Append(g.nodes[n], <<a, Incoming>>)
                            ELSE g.nodes[n]],
              edges |-> newEdges]

\* GraphMap::neighbors_directed(a, dir): the neighbours of a in direction
\* dir, in adjacency-list order; a self-loop is listed in both directions.
neighbors_directed(g, a, dir) ==
    LET sel == SelectSeq(g.nodes[a], LAMBDA x : x[2] = dir \/ x[1] = a)
    IN  [i \in 1..Len(sel) |-> sel[i][1]]

\* GraphMap::neighbors(a): the outgoing neighbours.
neighbors(g, a) == neighbors_directed(g, a, Outgoing)

\* ------------------------------------------------------------- scoring
\* mean::harmonic(slice) as u32: n / sum(1/x) in floating point, truncated.
\* A zero among the values makes the sum infinite and the mean 0.  For
\* positive values the quotient is computed exactly as n*P / sum(P/x), P the
\* product of the values; for lists of values up to 4 the truncated 64-bit
\* floating-point quotient is this exact one (rounding first shows with
\* three values 5, whose floating-point mean truncates to 4).
harmonic(fvals) ==
    IF \E i \in 1..Len(fvals) : fvals[i] = 0
    THEN 0
    ELSE LET P == SeqProd(fvals)
         IN  (Len(fvals) * P) \div SeqSum([i \in 1..Len(fvals) |-> P \div fvals[i]])

\* Mutant: the two emptiness checks are missing, so that the mean of no
\* value (0/0, not a number) is cast to 0.
score_harmonic_mean_nocheck(ovals) ==
    LET fvals == SelectSeq(ovals, LAMBDA v : v # UNDEF_SCORE)
    IN  IF fvals = <<>> THEN 0 ELSE harmonic(fvals)

score_harmonic_mean(ovals) ==
    IF Len(ovals) = 0
    THEN UNDEF_SCORE
    ELSE LET fvals == SelectSeq(ovals, LAMBDA v : v # UNDEF_SCORE)
         IN  IF fvals = <<>> THEN UNDEF_SCORE ELSE harmonic(fvals)

aggregate_score(ovals) == score_harmonic_mean(ovals)

\* get_cmp_from_bb: Option<CmpId> as a set with at most one element.
get_cmp_from_bb(bb) ==
    IF DOMAIN id_mapping # {}
    THEN IF bb \in DOMAIN id_mapping THEN {id_mapping[bb]} ELSE {}
    ELSE {}

\* Mutant: a recorded offset the input lacks counts as a mismatch.
RECURSIVE fixed_equal_strict(_, _)
fixed_equal_strict(fixed, inp) ==
    IF fixed = {}
    THEN TRUE
    ELSE LET p == CHOOSE q \in fixed : TRUE
         IN  IF p[1] >= Len(inp) \/ inp[p[1] + 1] # p[2]
             THEN FALSE
             ELSE fixed_equal_strict(fixed \ {p}, inp)

\* The loop of _should_count_edge over the recorded (offset, byte) pairs:
\* a pair whose offset the input has and whose byte differs ends the loop
\* with equal = false; a pair whose offset the input lacks is skipped.
RECURSIVE fixed_equal(_, _)
fixed_equal(fixed, inp) ==
    IF fixed = {}
    THEN TRUE
    ELSE LET p == CHOOSE q \in fixed : TRUE
         IN  IF p[1] < Len(inp) /\ inp[p[1] + 1] # p[2]
             THEN FALSE
             ELSE fixed_equal(fixed \ {p}, inp)

\* Mutant: recorded magic bytes are compared whether or not the edge is
\* marked indirect.
_should_count_edge_unmarked(edge, inp) ==
    IF edge \in DOMAIN magic_bytes
    THEN fixed_equal(magic_bytes[edge], inp)
    ELSE TRUE

\* Mutant: an indirect edge with no magic bytes recorded is not counted.
_should_count_edge_unrecorded(edge, inp) ==
    IF edge \notin indirect_edges
    THEN TRUE
    ELSE IF edge \in DOMAIN magic_bytes
         THEN fixed_equal(magic_bytes[edge], inp)
         ELSE FALSE

_should_count_edge(edge, inp) ==
    IF edge \notin indirect_edges
    THEN TRUE
    ELSE IF edge \in DOMAIN magic_bytes
         THEN fixed_equal(magic_bytes[edge], inp)
         ELSE TRUE

\* Mutant: a solved target still short-circuits the score to 0.
_score_for_cmp_inp_solved(g, tg, bb, inp) ==
    IF \E cmp \in get_cmp_from_bb(bb) : cmp \in tg \cup solved_targets
    THEN TARGET_SCORE
    ELSE LET nb == neighbors_directed(g, bb, Outgoing)
             counted == SelectSeq(nb, LAMBDA n : _should_count_edge(<<bb, n>>, inp))
             scores == [i \in 1..Len(counted) |-> edge_weight(g, bb, counted[i])]
         IN  aggregate_score(scores)

\* _score_for_cmp_inp on graph g with active targets tg.
_score_for_cmp_inp(g, tg, bb, inp) ==
    IF \E cmp \in get_cmp_from_bb(bb) : cmp \in tg
    THEN TARGET_SCORE
    ELSE LET nb == neighbors_directed(g, bb, Outgoing)
             counted == SelectSeq(nb, LAMBDA n : _should_count_edge(<<bb, n>>, inp))
             scores == [i \in 1..Len(counted) |-> edge_weight(g, bb, counted[i])]
         IN  aggregate_score(scores)

_score_for_cmp(g, tg, bb) == _score_for_cmp_inp(g, tg, bb, <<>>)

\* The public queries, on the current state.
score_for_cmp(cmp) == _score_for_cmp(graph, targets, cmp)
score_for_cmp_inp(cmp, inp) == _score_for_cmp_inp(graph, targets, cmp, inp)
has_score(cmp) == _score_for_cmp(graph, targets, cmp) # UNDEF_SCORE
has_edge(edge) == contains_edge(graph, edge[1], edge[2])
is_target(cmp) == cmp \in targets \/ cmp \in solved_targets

\* ---------------------------------------------------------- propagation
\* The body of propagate_score's loop for one dequeued node: recompute its
\* score, then overwrite the weight of every edge from a predecessor.
RECURSIVE write_preds(_, _, _, _)
write_preds(g, preds, visited, new_score) ==
    IF preds = <<>>
    THEN g
    ELSE write_preds(graph_add_edge(g, Head(preds), visited, new_score),
                     Tail(preds), visited, new_score)

visit_node(g, tg, visited) ==
    write_preds(g, neighbors_directed(g, visited, Incoming), visited,
                _score_for_cmp(g, tg, visited))

\* The while loop of propagate_score, one record per iteration: the node
\* Bfs::next returned, the graph before the loop body and the graph after
\* it.  Bfs::next pops the front of the queue and enqueues every not yet
\* discovered neighbour of the popped node in the graph it is handed, which
\* is &self.graph, the forward graph (the Reversed adaptor is given to
\* Bfs::new only, which reads no edges from it).
RECURSIVE bfs_trace(_, _, _, _)
bfs_trace(g, tg, stack, discovered) ==
    IF stack = <<>>
    THEN <<>>
    ELSE LET node == Head(stack)
             succ == SelectSeq(neighbors(g, node), LAMBDA n : n \notin discovered)
             after == visit_node(g, tg, node)
         IN  <<[visited |-> node, before |-> g, after |-> after]>>
                 \o bfs_trace(after, tg, Tail(stack) \o succ,
                              discovered \cup Range(succ))

\* Mutant: Bfs::new does not mark the start node as discovered.
propagate_trace_unmarked(g, tg, bb) == bfs_trace(g, tg, <<bb>>, {})

\* The iterations of propagate_score(bb): Bfs::new marks bb discovered and
\* queues it, so there is at least one.
propagate_trace(g, tg, bb) == bfs_trace(g, tg, <<bb>>, {bb})

\* propagate_score: the graph the last iteration leaves.
propagate_score(g, tg, bb) ==
    LET tr == propagate_trace(g, tg, bb)
    IN  tr[Len(tr)].after

\* Mutant: the early return is missing, every insertion propagates.
handle_new_edge_noreturn(g, tg, edge) ==
    LET src == edge[1]
        dst == edge[2]
        dst_score == _score_for_cmp(g, tg, dst)
        g1 == graph_add_edge(g, src, dst, dst_score)
    IN  propagate_score(graph_add_edge(g1, src, dst, dst_score), tg, src)

\* handle_new_edge
handle_new_edge(g, tg, edge) ==
    LET src == edge[1]
        dst == edge[2]
        dst_score == _score_for_cmp(g, tg, dst)
        old_src_score == _score_for_cmp(g, tg, src)
        g1 == graph_add_edge(g, src, dst, dst_score)
        new_src_score == _score_for_cmp(g1, tg, src)
    IN  IF old_src_score = new_src_score
        THEN g1
        ELSE propagate_score(graph_add_edge(g1, src, dst, dst_score), tg, src)

\* The nodes Dfs::next returns, in order, until the stack is empty: it pops
\* the top of the stack, skips a node already discovered, and otherwise
\* marks it, pushes its not yet discovered successors and returns it.
RECURSIVE dfs_visits(_, _, _)
dfs_visits(g, stack, discovered) ==
    IF stack = <<>>
    THEN <<>>
    ELSE LET node == stack[Len(stack)]
             rest == SubSeq(stack, 1, Len(stack) - 1)
         IN  IF node \in discovered
             THEN dfs_visits(g, rest, discovered)
             ELSE LET succ == SelectSeq(neighbors(g, node),
                                        LAMBDA n : n \notin discovered \cup {node})
                  IN  <<node>> \o dfs_visits(g, rest \o succ, discovered \cup {node})

\* has_path_to_target: depth-first search from the node over the forward
\* graph; true as soon as a returned node is an active target.
has_path_to_target(target) ==
    \E visited \in Range(dfs_visits(graph, <<target>>, {})) : visited \in targets

\* ------------------------------------------------------------ operations
\* ControlFlowGraph::empty_new()
InitEmpty ==
    /\ targets = {}
    /\ id_mapping = <<>>

\* ControlFlowGraph::new(data), before data.edges are added, for a bundle in
\* the single node-id space: every node maps to itself.
InitLoaded(top) ==
    /\ targets \in TargetSets(top)
    /\ id_mapping = [n \in Nodes |-> n]

InitTables ==
    /\ graph = EmptyGraph
    /\ solved_targets = {}
    /\ indirect_edges = {}
    /\ callsite_edges = <<>>
    /\ magic_bytes = <<>>
    /\ aborted = FALSE
    /\ last = [op |-> "new", ret |-> FALSE]

\* Logger::new(): no record yet; paths is read from the environment.
Logger_new(paths) ==
    [data |-> [cond_list |-> <<>>, untainted_cond_list |-> <<>>,
               tags |-> {}, magic_bytes |-> <<>>, ind_edges |-> <<>>],
     paths |-> paths,
     order_map |-> <<>>]

\* The graph is used without a trace recorder of its own.
InitNoTrace == logger = Logger_new({})

Init == InitTables /\ InitNoTrace /\ (InitEmpty \/ InitLoaded(MaxCore))

InitGraph == InitTables /\ InitNoTrace /\ (InitEmpty \/ InitLoaded(MaxNode))

\* Mutant: the negation is missing.
add_edge_result_present(g, edge) == contains_edge(g, edge[1], edge[2])

\* The value add_edge returns, computed before the edge is handled.
add_edge_result(g, edge) == ~contains_edge(g, edge[1], edge[2])

\* add_edge(edge) -> bool
AddEdge(edge) ==
    /\ ~aborted
    /\ has_edge(edge) \/ Cardinality(DOMAIN graph.edges) < MaxEdges
    /\ graph' = handle_new_edge(graph, targets, edge)
    /\ last' = [op |-> "add_edge", ret |-> add_edge_result(graph, edge)]
    /\ UNCHANGED logger
    /\ UNCHANGED <<targets, id_mapping, solved_targets, indirect_edges,
                   callsite_edges, magic_bytes, aborted>>

\* Mutant: the removed target is not recorded as solved.
RemoveTarget_unrecorded(cmp) ==
    /\ ~aborted
    /\ IF cmp \in targets
       THEN /\ targets' = targets \ {cmp}
            /\ graph' = propagate_score(graph, targets \ {cmp}, cmp)
            /\ UNCHANGED solved_targets
       ELSE UNCHANGED <<targets, graph, solved_targets>>
    /\ last' = [op |-> "remove_target", ret |-> FALSE]
    /\ UNCHANGED logger
    /\ UNCHANGED <<id_mapping, indirect_edges, callsite_edges, magic_bytes, aborted>>

\* remove_target(cmp)
RemoveTarget(cmp) ==
    /\ ~aborted
    /\ IF cmp \in targets
       THEN /\ targets' = targets \ {cmp}
            /\ graph' = propagate_score(graph, targets \ {cmp}, cmp)
            /\ solved_targets' = solved_targets \cup {cmp}
       ELSE UNCHANGED <<targets, graph, solved_targets>>
    /\ last' = [op |-> "remove_target", ret |-> FALSE]
    /\ UNCHANGED logger
    /\ UNCHANGED <<id_mapping, indirect_edges, callsite_edges, magic_bytes, aborted>>

\* set_edge_indirect(edge, callsite)
SetEdgeIndirect(edge, callsite) ==
    /\ ~aborted
    /\ indirect_edges' = indirect_edges \cup {edge}
    /\ callsite_edges' =
           [c \in (DOMAIN callsite_edges) \cup {callsite} |->
               IF c = callsite
               THEN (IF c \in DOMAIN callsite_edges THEN callsite_edges[c] ELSE {})
                        \cup {edge}
               ELSE callsite_edges[c]]
    /\ last' = [op |-> "set_edge_indirect", ret |-> FALSE]
    /\ UNCHANGED logger
    /\ UNCHANGED <<graph, targets, id_mapping, solved_targets, magic_bytes, aborted>>

\* set_magic_bytes(edge, buf, offsets): buf[i] panics for an index at or
\* beyond buf.len(), before anything is stored.
SetMagicBytes(edge, buf, offsets) ==
    LET indices == UNION {s[1]..(s[2] - 1) : s \in offsets}
        fixed == {<<i, buf[i + 1]>> : i \in indices}
    IN  /\ ~aborted
        /\ IF \E i \in indices : i >= Len(buf)
           THEN /\ aborted' = TRUE
                /\ UNCHANGED magic_bytes
           ELSE /\ magic_bytes' =
                       [e \in (DOMAIN magic_bytes) \cup {edge} |->
                           IF e = edge THEN fixed ELSE magic_bytes[e]]
                /\ UNCHANGED aborted
        /\ last' = [op |-> "set_magic_bytes", ret |-> FALSE]
        /\ UNCHANGED logger
        /\ UNCHANGED <<graph, targets, id_mapping, solved_targets,
                       indirect_edges, callsite_edges>>

Next ==
    \/ \E edge \in CoreEdges : AddEdge(edge)
    \/ \E cmp \in CoreNodes : RemoveTarget(cmp)
    \/ \E edge \in GateEdges, callsite \in CallSites : SetEdgeIndirect(edge, callsite)
    \/ \E edge \in GateEdges, buf \in Inputs, offsets \in TagVecs :
           SetMagicBytes(edge, buf, offsets)

Spec == Init /\ [][Next]_vars

\* ControlFlowGraph::new(data), before data.edges are added, for a bundle
\* whose id_mapping sends the basic-block ids 0..MaxCore to comparison ids
\* in any way, the identity included.
InitMapped ==
    /\ InitTables
    /\ InitNoTrace
    /\ targets \in TargetSets(MaxCore)
    /\ id_mapping \in [CoreNodes -> CoreNodes]

\* add_edge and remove_target on a graph built under any id_mapping.
NextMapped ==
    \/ \E edge \in CoreEdges : AddEdge(edge)
    \/ \E cmp \in CoreNodes : RemoveTarget(cmp)

SpecMapped == InitMapped /\ [][NextMapped]_vars

\* aggregate_score(ovals), the function on its own.
AggregateScore(ovals) ==
    /\ ~aborted
    /\ last' = [op |-> "aggregate_score", arg |-> ovals,
                ret |-> aggregate_score(ovals)]
    /\ UNCHANGED logger
    /\ UNCHANGED <<graph, targets, id_mapping, solved_targets, indirect_edges,
                   callsite_edges, magic_bytes, aborted>>

NextScore == \E ovals \in ScoreLists : AggregateScore(ovals)

InitScore == InitTables /\ InitNoTrace /\ InitEmpty

SpecScore == InitScore /\ [][NextScore]_vars

\* ------------------------------------------------------- trace recorder
\* The comparison ids conditions are recorded for.
LogCmpIds == {1}
\* CondStmtBase, the fields the recorder reads: op is "cmp" for an operator
\* below COND_AFL_OP or equal to COND_FN_OP, for which the order is counted,
\* and "afl" for any other; lb1 and lb2 are the taint labels.
Conds ==
    [cmpid : LogCmpIds, context : {0}, order : {0, 1}, op : {"cmp", "afl"},
     lb1 : {0, 1}, lb2 : {0}]
\* The (Vec<u8>, Vec<u8>) pairs save_magic_bytes is handed.
MagicPairs == {<<<<65>>, <<66>>>>, <<<<66>>, <<65>>>>}
\* The indirect edges save_ind is handed.
IndEdges == {<<0, 1>>}
\* The order of a length condition is 0x10000 + order.
LenOrderBase == 65536

\* HashMap::insert(k, v)
map_insert(m, k, v) == [x \in (DOMAIN m) \cup {k} |-> IF x = k THEN v ELSE m[x]]

\* order_map.entry(key).or_insert(0), read
order_of(key) ==
    IF key \in DOMAIN logger.order_map THEN logger.order_map[key] ELSE 0

\* get_order(cond): the counter of (cmpid, context), incremented when
\* cond.order is 0; cond.order is raised by the counter.
get_order(cond) ==
    LET key == <<cond.cmpid, cond.context>>
        order == IF cond.order = 0 THEN order_of(key) + 1 ELSE order_of(key)
    IN  [order |-> order,
         cond |-> [cond EXCEPT !.order = cond.order + order],
         order_map |-> map_insert(logger.order_map, key, order)]

\* save_tag(lb)
save_tag(tags, lb) == IF lb > 0 THEN tags \cup {lb} ELSE tags

\* save(cond).  has_len tells whether len_label::get_len_cond(&mut cond),
\* which is outside these sources, yields a length condition; of that
\* condition only the order, which save sets, is known, so it is kept as
\* the saved condition with that order.  tags holds the labels saved.
Save(cond, has_len) ==
    LET counted == cond.op = "cmp"
        got == get_order(cond)
        order == IF counted THEN got.order ELSE 0
        cond1 == IF counted THEN got.cond ELSE cond
        order_map1 == IF counted THEN got.order_map ELSE logger.order_map
        len_cond == [cond1 EXCEPT !.order = LenOrderBase + order]
        pushed == IF has_len THEN <<cond1, len_cond>> ELSE <<cond1>>
    IN  /\ Len(logger.data.cond_list) < MaxConds
        /\ order_of(<<cond.cmpid, cond.context>>) <= MaxCondOrder
        /\ IF cond.lb1 = 0 /\ cond.lb2 = 0
           THEN UNCHANGED logger
           ELSE IF order <= MaxCondOrder
                THEN logger' =
                         [logger EXCEPT
                             !.order_map = order_map1,
                             !.data.tags = save_tag(save_tag(@, cond1.lb1), cond1.lb2),
                             !.data.cond_list = @ \o pushed]
                ELSE logger' = [logger EXCEPT !.order_map = order_map1]
        /\ last' = [op |-> "save", ret |-> FALSE]
        /\ UNCHANGED <<graph, targets, id_mapping, solved_targets, indirect_edges,
                       callsite_edges, magic_bytes, aborted>>

\* untainted_save(cond)
UntaintedSave(cond) ==
    /\ Len(logger.data.untainted_cond_list) < MaxLogged
    /\ IF cond.cmpid \in logger.paths
       THEN logger' = [logger EXCEPT !.data.untainted_cond_list = Append(@, cond)]
       ELSE UNCHANGED logger
    /\ last' = [op |-> "untainted_save", ret |-> FALSE]
    /\ UNCHANGED <<graph, targets, id_mapping, solved_targets, indirect_edges,
                   callsite_edges, magic_bytes, aborted>>

\* save_ind(indirect_edge)
SaveInd(indirect_edge) ==
    /\ Len(logger.data.ind_edges) < MaxLogged
    /\ logger' = [logger EXCEPT !.data.ind_edges = Append(@, indirect_edge)]
    /\ last' = [op |-> "save_ind", ret |-> FALSE]
    /\ UNCHANGED <<graph, targets, id_mapping, solved_targets, indirect_edges,
                   callsite_edges, magic_bytes, aborted>>

\* Mutant: the bytes are stored under the length of the list.
SaveMagicBytes_at_len(bytes) ==
    LET i == Len(logger.data.cond_list)
    IN  /\ IF i > 0
           THEN logger' = [logger EXCEPT
                              !.data.magic_bytes = map_insert(@, i, bytes)]
           ELSE UNCHANGED logger
        /\ last' = [op |-> "save_magic_bytes", arg |-> bytes, ret |-> FALSE]
        /\ UNCHANGED <<graph, targets, id_mapping, solved_targets, indirect_edges,
                       callsite_edges, magic_bytes, aborted>>

\* save_magic_bytes(bytes)
SaveMagicBytes(bytes) ==
    LET i == Len(logger.data.cond_list)
    IN  /\ IF i > 0
           THEN logger' = [logger EXCEPT
                              !.data.magic_bytes = map_insert(@, i - 1, bytes)]
           ELSE UNCHANGED logger
        /\ last' = [op |-> "save_magic_bytes", arg |-> bytes, ret |-> FALSE]
        /\ UNCHANGED <<graph, targets, id_mapping, solved_targets, indirect_edges,
                       callsite_edges, magic_bytes, aborted>>

\* Logger::new() next to an unused graph; paths holds any of the ids.
InitLogger ==
    /\ InitTables
    /\ InitEmpty
    /\ \E paths \in SUBSET LogCmpIds : logger = Logger_new(paths)

NextLogger ==
    \/ \E cond \in Conds, has_len \in BOOLEAN : Save(cond, has_len)
    \/ \E cond \in Conds : UntaintedSave(cond)
    \/ \E indirect_edge \in IndEdges : SaveInd(indirect_edge)
    \/ \E bytes \in MagicPairs : SaveMagicBytes(bytes)

SpecLogger == InitLogger /\ [][NextLogger]_vars

\* add_edge and remove_target alone, on every node.
NextGraph ==
    \/ \E edge \in Edges : AddEdge(edge)
    \/ \E cmp \in Nodes : RemoveTarget(cmp)

SpecGraph == InitGraph /\ [][NextGraph]_vars

\* ------------------------------------------------- vocabulary of the claims
\* The edges leaving node n, read from the edge map.
OutEdges(n) == {e \in DOMAIN graph.edges : e[1] = n}

\* The weights of a set of edges of the graph, as a list in some order.
RECURSIVE WeightsOf(_)
WeightsOf(es) ==
    IF es = {}
    THEN <<>>
    ELSE LET e == CHOOSE x \in es : TRUE
         IN  <<graph.edges[e]>> \o WeightsOf(es \ {e})

\* Edge e is marked indirect and has magic bytes recorded.
Gated(e) == e \in indirect_edges /\ e \in DOMAIN magic_bytes

\* Every cached weight equals the recomputed score of the edge's destination.
AllWeightsFresh ==
    \A e \in DOMAIN graph.edges : graph.edges[e] = score_for_cmp(e[2])

\* The propagation pass add_edge(e) starts after inserting e: the graph it
\* runs on, the active targets and the root.
PassOfAddEdge(e) ==
    [g |-> graph_add_edge(graph, e[1], e[2], _score_for_cmp(graph, targets, e[2])),
     tg |-> targets, root |-> e[1]]

\* add_edge(e) does not return early: the score of e's source changes.
RunsPass(e) ==
    _score_for_cmp(graph, targets, e[1]) #
        _score_for_cmp(PassOfAddEdge(e).g, targets, e[1])

\* The propagation pass remove_target(c) starts for an active target c.
PassOfRemoveTarget(c) == [g |-> graph, tg |-> targets \ {c}, root |-> c]

\* The propagation passes an add_edge or remove_target call made in the
\* current state would run.
Passes ==
    {PassOfAddEdge(e) : e \in {x \in Edges : RunsPass(x)}}
        \cup {PassOfRemoveTarget(c) : c \in targets}

TraceOf(p) == propagate_trace(p.g, p.tg, p.root)

\* No value occurs twice in the list.
Distinct(s) == \A i, j \in 1..Len(s) : i # j => s[i] # s[j]

\* Node a reaches node b by a directed path of one or more edges of g.
RECURSIVE ReachSet(_, _)
ReachSet(g, seen) ==
    LET more == {m \in Nodes : \E n \in seen : contains_edge(g, n, m)}
    IN  IF more \subseteq seen THEN seen ELSE ReachSet(g, seen \cup more)

OnCycle(g, n) ==
    n \in ReachSet(g, {m \in Nodes : contains_edge(g, n, m)})

\* ------------------------------------------------------------------ C1
\* C1: in every reachable state the cached weight of every edge (p, v)
\* equals score_for_cmp(v) recomputed in that state.
C1_CacheConsistent == AllWeightsFresh

\* ------------------------------------------------------------------ C2
\* C2: score_for_cmp(t) is 0 for every active target t, whatever its
\* outgoing edges; and right after remove_target(t) removed t from the
\* active targets, score_for_cmp(t) is the aggregate of the weights of t's
\* outgoing edges in the new state, UNDEF_SCORE if it has none.
C2_ActiveZero == \A t \in targets : score_for_cmp(t) = TARGET_SCORE

C2_RemovedAggregate ==
    \A t \in Nodes :
        (t \in targets /\ t \notin targets') =>
            /\ score_for_cmp(t)' = aggregate_score(WeightsOf(OutEdges(t)))'
            /\ (OutEdges(t)' = {} => score_for_cmp(t)' = UNDEF_SCORE)

C2_TargetZero == [] C2_ActiveZero /\ [][C2_RemovedAggregate]_vars

\* Witness of C2: remove_target has just solved a target that has outgoing
\* edges, and its score is their aggregate and no longer 0, while a node
\* that is still an active target has outgoing edges too.
C2_Witness ==
    /\ last.op = "remove_target"
    /\ \E t \in solved_targets :
           /\ OutEdges(t) # {}
           /\ score_for_cmp(t) # TARGET_SCORE
           /\ score_for_cmp(t) = aggregate_score(WeightsOf(OutEdges(t)))
    /\ \E t \in targets : OutEdges(t) # {}

\* ------------------------------------------------------------------ C3
\* C3: score_for_cmp(n) and score_for_cmp_inp(n, inp) are never 0 for a node
\* n that is not an active target; a non-target node whose only surviving
\* successor weight is 0 scores 1.
C3_NonTargetNeverZero ==
    \A n \in Nodes \ targets :
        /\ score_for_cmp(n) # 0
        /\ \A inp \in Inputs : score_for_cmp_inp(n, inp) # 0
        /\ ({graph.edges[e] : e \in OutEdges(n)} \ {UNDEF_SCORE} = {0}
                => score_for_cmp(n) = 1)

\* ------------------------------------------------------------------ C4
\* The node lists p = <<n_k, ..., n_1, t>> along which the graph is a single
\* simple path: the nodes are distinct, the edges of the graph are exactly
\* the hops of p, the last node is the only active target on it, and no
\* target has been removed.
Chains ==
    {p \in UNION {[1..n -> Nodes] : n \in 2..(MaxEdges + 1)} :
        /\ \A i, j \in 1..Len(p) : i # j => p[i] # p[j]
        /\ DOMAIN graph.edges = {<<p[i], p[i + 1]>> : i \in 1..(Len(p) - 1)}
        /\ p[Len(p)] \in targets
        /\ \A i \in 1..(Len(p) - 1) : p[i] \notin targets
        /\ solved_targets = {}}

\* C4: when the graph is a single simple path ending in an active target,
\* whatever the order its edges were added in, the target scores 0 and the
\* node i hops before it scores i.
C4_ChainHopDistance ==
    \A p \in Chains : \A i \in 0..(Len(p) - 1) : score_for_cmp(p[Len(p) - i]) = i

\* ------------------------------------------------------------------ C5
\* C5: for every node n, if score_for_cmp(n) is not UNDEF_SCORE then
\* has_path_to_target(n) is true.
C5_ScoreImpliesPath ==
    \A n \in Nodes : score_for_cmp(n) # UNDEF_SCORE => has_path_to_target(n)

\* ------------------------------------------------------------------ C8
\* C8: from any reachable state, a second add_edge with the same pair, made
\* right after the first, leaves the set of edges and every cached weight as
\* the first call left them.
C8_AddEdgeIdempotent ==
    \A e \in Edges :
        LET g1 == handle_new_edge(graph, targets, e)
        IN  handle_new_edge(g1, targets, e).edges = g1.edges

\* ------------------------------------------------------------------ C6
\* Input inp has, at every recorded offset of edge e, the recorded byte.
MatchesAll(e, inp) ==
    \A p \in magic_bytes[e] : p[1] < Len(inp) /\ inp[p[1] + 1] = p[2]

\* Input inp has the recorded byte at every recorded offset of e that lies
\* within inp; offsets at or beyond its end are not compared.
MatchesWithin(e, inp) ==
    \A p \in magic_bytes[e] : p[1] < Len(inp) => inp[p[1] + 1] = p[2]

C7_StaticCountsAll ==
    \A n \in Nodes \ targets :
        score_for_cmp(n) = aggregate_score(WeightsOf(OutEdges(n)))

C7_SetterFrame ==
    last'.op \in {"set_edge_indirect", "set_magic_bytes"} =>
        /\ graph' = graph
        /\ \A n \in Nodes : score_for_cmp(n)' = score_for_cmp(n)

C7_StaticIgnoresGating == [] C7_StaticCountsAll /\ [][C7_SetterFrame]_vars

\* Witness of C7: a setter has just run, and an edge of the graph that is
\* marked indirect with a byte recorded carries a weight that is a score
\* and is the only edge that gives its source a score.
C7_Witness ==
    /\ last.op \in {"set_edge_indirect", "set_magic_bytes"}
    /\ \E e \in DOMAIN graph.edges :
           /\ Gated(e)
           /\ magic_bytes[e] # {}
           /\ graph.edges[e] # UNDEF_SCORE
           /\ e[1] \notin targets
           /\ OutEdges(e[1]) = {e}
           /\ score_for_cmp(e[1]) # UNDEF_SCORE

\* ------------------------------------------------------------------ C9
\* C9: add_edge(e) returns true if and only if has_edge(e) was false right
\* before the call, has_edge(e) is true right after it, and no operation
\* ever removes an edge.
C9_Returned ==
    \A e \in DOMAIN graph'.edges :
        (last'.op = "add_edge" /\ graph' = handle_new_edge(graph, targets, e)) =>
            last'.ret = ~has_edge(e)

C9_EdgesKept == \A e \in Edges : has_edge(e) => has_edge(e)'

C9_PresentAfter ==
    \A e \in Edges :
        contains_edge(handle_new_edge(graph, targets, e), e[1], e[2])

C9_AddEdgeResult == [] C9_PresentAfter /\ [][C9_Returned /\ C9_EdgesKept]_vars

\* Witness of C9: add_edge has returned false for an edge that was already
\* in the graph, next to another edge.
C9_Witness ==
    /\ last.op = "add_edge"
    /\ ~last.ret
    /\ Cardinality(DOMAIN graph.edges) >= 2

\* ----------------------------------------------------------------- C10
\* C10: a node that is not an active target scores UNDEF_SCORE, and has no
\* score, when it has no outgoing edge or only outgoing edges of weight
\* UNDEF_SCORE; and score_for_cmp_inp gives it UNDEF_SCORE for an input for
\* which every outgoing edge is excluded by gating or has weight UNDEF_SCORE.
C10_SentinelFloor ==
    \A n \in Nodes \ targets :
        /\ (\A e \in OutEdges(n) : graph.edges[e] = UNDEF_SCORE) =>
               (score_for_cmp(n) = UNDEF_SCORE /\ ~has_score(n))
        /\ \A inp \in Inputs :
               (\A e \in OutEdges(n) :
                    (Gated(e) /\ ~MatchesWithin(e, inp)) \/ graph.edges[e] = UNDEF_SCORE)
                   => score_for_cmp_inp(n, inp) = UNDEF_SCORE

\* Witness of C10: a node that is no target has outgoing edges and a static
\* score, and for some input every one of its outgoing edges is excluded by
\* gating, so that its score for that input is UNDEF_SCORE.
C10_Witness ==
    \E n \in Nodes \ targets :
        /\ OutEdges(n) # {}
        /\ has_score(n)
        /\ \E inp \in Inputs :
               /\ \A e \in OutEdges(n) : Gated(e) /\ ~MatchesWithin(e, inp)
               /\ score_for_cmp_inp(n, inp) = UNDEF_SCORE

\* ----------------------------------------------------------------- C11
\* C11: a set_magic_bytes call whose tainted ranges cover an offset at or
\* beyond the input's length does not abort: after every set_magic_bytes
\* call the program is still running.
C11_NoAbortOnMalformed == last.op = "set_magic_bytes" => ~aborted

\* ----------------------------------------------------------------- C12
\* C12: add_edge, remove_target and has_path_to_target terminate on every
\* graph, cyclic or not: a propagation pass makes at most one iteration per
\* node (each node is dequeued and recomputed at most once), and the search
\* of has_path_to_target returns each node at most once.
C12_PassVisitsOnce ==
    \A p \in Passes :
        LET tr == TraceOf(p)
        IN  /\ Distinct([i \in 1..Len(tr) |-> tr[i].visited])
            /\ Len(tr) <= Cardinality(Nodes)

C12_SearchVisitsOnce ==
    \A n \in Nodes :
        LET vs == dfs_visits(graph, <<n>>, {})
        IN  /\ Distinct(vs)
            /\ Len(vs) <= Cardinality(Nodes)
            /\ has_path_to_target(n) \in BOOLEAN

C12_TerminatesOnCycles == C12_PassVisitsOnce /\ C12_SearchVisitsOnce

\* Witness of C12: an operation would run a propagation pass rooted at a
\* node that lies on a cycle of the graph, the pass dequeues another node of
\* that cycle too, and the search of has_path_to_target from the root goes
\* round the cycle.
C12_Witness ==
    \E p \in Passes :
        LET tr == TraceOf(p)
        IN  /\ OnCycle(p.g, p.root)
            /\ \E i \in 2..Len(tr) :
                   /\ tr[i].visited # p.root
                   /\ p.root \in ReachSet(p.g, {tr[i].visited})
            /\ OnCycle(graph, p.root)
            /\ Len(dfs_visits(graph, <<p.root>>, {})) >= 2

\* ----------------------------------------------------------------- C13
\* C13: once is_target(n) is true it stays true whatever operation follows;
\* a remove_target call that removes an active target n moves n from the
\* active targets to the solved targets, and no node is ever in both; a
\* remove_target call for a node that is not an active target changes no
\* target set and no edge weight.
C13_Disjoint == targets \cap solved_targets = {}

C13_Permanent == \A n \in Nodes : is_target(n) => is_target(n)'

C13_Moves ==
    (last'.op = "remove_target" /\ targets' # targets) =>
        \E n \in targets :
            /\ targets' = targets \ {n}
            /\ solved_targets' = solved_targets \cup {n}

C13_Noop ==
    (last'.op = "remove_target" /\ targets' = targets) =>
        /\ solved_targets' = solved_targets
        /\ graph' = graph

C13_OtherOpsKeep ==
    last'.op # "remove_target" =>
        (targets' = targets /\ solved_targets' = solved_targets)

C13_IsTargetPermanent ==
    [] C13_Disjoint
        /\ [][C13_Permanent /\ C13_Moves /\ C13_Noop /\ C13_OtherOpsKeep]_vars

\* Witness of C13: a target was solved while another is still active, and
\* an add_edge call that followed the removal has put an edge at the solved
\* target, which is_target still reports.
C13_Witness ==
    /\ last.op = "add_edge"
    /\ targets # {}
    /\ \E n \in solved_targets :
           /\ is_target(n)
           /\ n \notin targets
           /\ \E e \in DOMAIN graph.edges : e[1] = n \/ e[2] = n

\* ----------------------------------------------------------------- C14
\* C14: in every propagation pass, at the moment a node v is dequeued and
\* its score recomputed, every outgoing edge (v, w) already carries the
\* score w has at the end of the pass, so that the score computed for v and
\* written to v's incoming edges is the score v has at the end of the pass.
C14_SinglePassFinal ==
    \A p \in Passes :
        LET tr == TraceOf(p)
            end == tr[Len(tr)].after
        IN  \A i \in 1..Len(tr) :
                LET v == tr[i].visited
                IN  /\ \A w \in Range(neighbors(tr[i].before, v)) :
                           edge_weight(tr[i].before, v, w) = _score_for_cmp(end, p.tg, w)
                    /\ _score_for_cmp(tr[i].before, p.tg, v) = _score_for_cmp(end, p.tg, v)

\* ----------------------------------------------------------------- C15
\* C15: when score_for_cmp(src) is the same before and after the insertion,
\* add_edge((src, dst)) runs no propagation: the graph it leaves is the
\* graph right after the insertion, in which no edge other than (src, dst)
\* has changed its weight; and if every edge weight equalled its
\* destination's score before the call, every edge weight does after it.
C15_ShortCircuit ==
    \A e \in Edges :
        ~RunsPass(e) =>
            LET after == handle_new_edge(graph, targets, e)
            IN  /\ after = PassOfAddEdge(e).g
                /\ DOMAIN after.edges = (DOMAIN graph.edges) \cup {e}
                /\ \A x \in (DOMAIN graph.edges) \ {e} :
                       after.edges[x] = graph.edges[x]
                /\ AllWeightsFresh =>
                       \A x \in DOMAIN after.edges :
                           after.edges[x] = _score_for_cmp(after, targets, x[2])

\* Witness of C15: add_edge has just inserted the second of two edges from
\* a node that is no target to two active targets; the node scored 0 before
\* and after that insertion, so the call returned early, and every weight
\* equals its destination's score.
C15_Witness ==
    /\ last.op = "add_edge"
    /\ last.ret
    /\ AllWeightsFresh
    /\ \E n \in Nodes \ targets :
           \E a, b \in targets :
               /\ a # b
               /\ DOMAIN graph.edges = {<<n, a>>, <<n, b>>}
               /\ score_for_cmp(n) = TARGET_SCORE

\* ----------------------------------------------------------------- C16
\* C16: a propagation pass rooted at r leaves the set of edges as it is and
\* changes the weight of an edge (p, v) only if v is r or r can be reached
\* from v by a directed path.
C16_PropagationFrame ==
    \A p \in Passes :
        LET tr == TraceOf(p)
            end == tr[Len(tr)].after
        IN  /\ DOMAIN end.edges = DOMAIN p.g.edges
            /\ \A x \in DOMAIN p.g.edges :
                   p.root \notin ReachSet(p.g, {x[2]}) =>
                       end.edges[x] = p.g.edges[x]

\* ----------------------------------------------------------------- C17
\* The lists with the same values as s, in every order.
Reorderings(s) ==
    {[i \in 1..Len(s) |-> s[f[i]]] :
        f \in {g \in [1..Len(s) -> 1..Len(s)] :
                  \A i, j \in 1..Len(s) : i # j => g[i] # g[j]}}

\* C17: for a non-empty list of weights of which some are not UNDEF_SCORE,
\* aggregate_score returns floor(n / sum(1/s_i)) + 1 over the n weights that
\* are not UNDEF_SCORE (1 when one of them is 0; 2 for the weights 1 and 3),
\* whatever the order of the list.
C17_AggregationRule ==
    last.op = "aggregate_score" =>
        LET kept == SelectSeq(last.arg, LAMBDA v : v # UNDEF_SCORE)
        IN  kept # <<>> =>
                /\ last.ret = harmonic(kept) + 1
                /\ (TARGET_SCORE \in Range(kept) => last.ret = 1)
                /\ (last.arg = <<1, 3>> => last.ret = 2)
                /\ \A q \in Reorderings(last.arg) : aggregate_score(q) = last.ret

\* ----------------------------------------------------------------- C18
\* C18: for every node n and input inp, if no outgoing edge of n is both
\* marked indirect and has magic bytes recorded, then
\* score_for_cmp_inp(n, inp) = score_for_cmp(n); and for an active target n,
\* score_for_cmp_inp(n, inp) is 0 for every input.
C18_UngatedAgree ==
    \A n \in Nodes : \A inp \in Inputs :
        /\ (\A e \in OutEdges(n) : ~Gated(e)) =>
               score_for_cmp_inp(n, inp) = score_for_cmp(n)
        /\ n \in targets => score_for_cmp_inp(n, inp) = TARGET_SCORE

\* Witness of C18: the only outgoing edge of a node that is no target has a
\* byte recorded but is not marked indirect, its weight is a score, and an
\* input with another byte at the recorded offset gives the node its static
\* score; an active target with an outgoing edge exists as well.
C18_Witness ==
    /\ \E e \in DOMAIN graph.edges :
           /\ e \in DOMAIN magic_bytes
           /\ e \notin indirect_edges
           /\ e[1] \notin targets
           /\ OutEdges(e[1]) = {e}
           /\ graph.edges[e] # UNDEF_SCORE
           /\ \E inp \in Inputs :
                  /\ ~MatchesWithin(e, inp)
                  /\ score_for_cmp_inp(e[1], inp) = score_for_cmp(e[1])
                  /\ score_for_cmp(e[1]) # UNDEF_SCORE
    /\ \E t \in targets : OutEdges(t) # {}

\* ----------------------------------------------------------------- C19
\* C19: under any id_mapping, after remove_target(c) has removed the active
\* target c, every node b that maps to c (and so scored 0), and every node
\* from which such a b can be reached, has all its incoming edge weights
\* equal to its recomputed score_for_cmp.
C19_Repaired ==
    \A c \in targets \ targets' :
        LET mapped == {b \in DOMAIN id_mapping : id_mapping[b] = c}
            ancestors == {v \in Nodes : ReachSet(graph', {v}) \cap mapped # {}}
        IN  \A e \in DOMAIN graph'.edges :
                e[2] \in ancestors => graph'.edges[e] = score_for_cmp(e[2])'

C19_RemovalRepairsAncestors == [][C19_Repaired]_vars

\* ----------------------------------------------------------------- C20
\* C20: every key of the recorder's magic-bytes table is the index of an
\* entry of its condition list; save_magic_bytes stores its bytes under the
\* index of the list's last entry, replacing what was stored there, and
\* leaves the table as it is when the list is empty; it never changes the
\* list.
C20_KeysIndexConds ==
    \A k \in DOMAIN logger.data.magic_bytes :
        k >= 0 /\ k < Len(logger.data.cond_list)

C20_StoresAtLast ==
    last'.op = "save_magic_bytes" =>
        LET i == Len(logger.data.cond_list)
            old == logger.data.magic_bytes
            new == logger'.data.magic_bytes
        IN  /\ logger'.data.cond_list = logger.data.cond_list
            /\ i = 0 => new = old
            /\ i > 0 =>
                   /\ DOMAIN new = (DOMAIN old) \cup {i - 1}
                   /\ new[i - 1] = last'.arg
                   /\ \A k \in (DOMAIN old) \ {i - 1} : new[k] = old[k]

C20_TableOnlyBySaveMagicBytes ==
    last'.op # "save_magic_bytes" =>
        logger'.data.magic_bytes = logger.data.magic_bytes

C20_MagicBytesTable ==
    [] C20_KeysIndexConds
        /\ [][C20_StoresAtLast /\ C20_TableOnlyBySaveMagicBytes]_vars

\* Witness of C20: save_magic_bytes has just stored its bytes under the
\* index of the last of several conditions, and an earlier condition has
\* other bytes recorded.
C20_Witness ==
    /\ last.op = "save_magic_bytes"
    /\ Len(logger.data.cond_list) >= 2
    /\ LET top == Len(logger.data.cond_list) - 1
       IN  /\ top \in DOMAIN logger.data.magic_bytes
           /\ logger.data.magic_bytes[top] = last.arg
           /\ \E k \in DOMAIN logger.data.magic_bytes :
                  k < top /\ logger.data.magic_bytes[k] # last.arg

====
